---- MODULE Spec2Model ----
(***************************************************************************)
(* Model of Example.py: the brand-mention pipeline.                        *)
(*                                                                         *)
(*   label_mentions          Mentioned flag per record                     *)
(*   has_wikipedia_page      page resolver (aliases, disambiguation,       *)
(*                           search fallback), one step per external call  *)
(*   compute_haswiki_flags   resolver loop over the unique brands          *)
(*   chi_square_on_haswiki   association test with its degenerate guard    *)
(*                                                                         *)
(* Strings are sequences of one-character strings, so that lower(),        *)
(* strip(), the substring test and the ordering of sorted() are computed   *)
(* and not assumed.  An optional value (None / NaN) is a sequence of       *)
(* length 0 or 1: None is << >>, a present value x is <<x>>.               *)
(***************************************************************************)
EXTENDS Integers, Sequences, FiniteSets, TLC

VARIABLES
    df,             \* the table handed to the function under study
    labelStatus,    \* label_mentions: "pending", "returned" or "raised"
    labelled,       \* the table label_mentions returned (<< >> before)
    pc,             \* has_wikipedia_page: control location
    brand,          \* has_wikipedia_page: its argument
    titles_to_try,  \* has_wikipedia_page: the direct candidate titles
    ti,             \* index of the direct candidate in turn
    options,        \* e.options of the DisambiguationError being handled
    candidates,     \* candidates[:3] of the handler
    ci,             \* index of the disambiguation candidate in turn
    hits,           \* hits[:5] of the search fallback
    hi,             \* index of the search hit in turn
    ret,            \* the value has_wikipedia_page returned (<< >> before)
    log,            \* history: the external calls of the running resolver call
    optLog,         \* history: option titles fetched by the current handler
    fpc,            \* compute_haswiki_flags: control location
    brands,         \* compute_haswiki_flags: sorted unique non-null brands
    bi,             \* index of the brand in turn
    wiki_flag,      \* compute_haswiki_flags: brand -> flag
    wiki_title,     \* compute_haswiki_flags: brand -> title
    flagged,        \* the table compute_haswiki_flags returned (<< >> before)
    calls,          \* history: resolver invocations, with what each returned
    lastEvent,      \* history: "start", "call" (external lookup) or "sleep"
    stats           \* chi_square_on_haswiki: what it reported (<< >> before)

vars == <<df, labelStatus, labelled, pc, brand, titles_to_try, ti, options,
          candidates, ci, hits, hi, ret, log, optLog, fpc, brands, bi,
          wiki_flag, wiki_title, flagged, calls, lastEvent, stats>>

labelVars == <<labelStatus, labelled>>
resolverVars == <<pc, brand, titles_to_try, ti, options, candidates, ci,
                  hits, hi, ret, log, optLog>>
flagsVars == <<fpc, brands, bi, wiki_flag, wiki_title, flagged, calls>>

(***************************************************************************)
(* Bounds of the model.                                                    *)
(***************************************************************************)
MaxRows == 1        \* rows of the table given to label_mentions
MaxBrandLen == 1    \* characters of a Brand given to label_mentions
MaxRespLen == 2     \* characters of a Response given to label_mentions
MaxOptions == 4     \* options a DisambiguationError carries
MaxHits == 6        \* hits a search returns
MaxFlagRows == 2    \* rows of the table given to compute_haswiki_flags
MaxChiRows == 8     \* rows of the table given to chi_square_on_haswiki

(***************************************************************************)
(* Optional values and strings.                                            *)
(***************************************************************************)
None == << >>

Some(x) == <<x>>

SeqsUpTo(S, n) == UNION {[1..k -> S] : k \in 0..n}

UpperCase == <<"A","B","C","D","E","F","G","H","I","J","K","L","M",
               "N","O","P","Q","R","S","T","U","V","W","X","Y","Z">>

LowerCase == <<"a","b","c","d","e","f","g","h","i","j","k","l","m",
               "n","o","p","q","r","s","t","u","v","w","x","y","z">>

\* the characters of the model in code point order (Python compares str by
\* code point)
CodeOrder == <<" ", "!", "(", ")", "-", ".">> \o UpperCase \o LowerCase

Ord(c) == CHOOSE i \in 1..Len(CodeOrder) : CodeOrder[i] = c

LowerChar(c) ==
    IF \E i \in 1..Len(UpperCase) : UpperCase[i] = c
    THEN LowerCase[CHOOSE i \in 1..Len(UpperCase) : UpperCase[i] = c]
    ELSE c

\* str.lower()
Lower(s) == [i \in 1..Len(s) |-> LowerChar(s[i])]

IsSpace(c) == c = " "

RECURSIVE LStrip(_)
LStrip(s) ==
    IF s # << >> /\ IsSpace(Head(s)) THEN LStrip(Tail(s)) ELSE s

RECURSIVE RStrip(_)
RStrip(s) ==
    IF s # << >> /\ IsSpace(s[Len(s)])
    THEN RStrip(SubSeq(s, 1, Len(s) - 1))
    ELSE s

\* str.strip()
Strip(s) == RStrip(LStrip(s))

\* Python's  sub in s  on strings
Contains(s, sub) ==
    \E k \in 0..(Len(s) - Len(sub)) : SubSeq(s, k + 1, k + Len(sub)) = sub

\* Python's  s < t  on strings
RECURSIVE StrLess(_, _)
StrLess(s, t) ==
    IF t = << >> THEN FALSE
    ELSE IF s = << >> THEN TRUE
    ELSE IF Head(s) # Head(t) THEN Ord(Head(s)) < Ord(Head(t))
    ELSE StrLess(Tail(s), Tail(t))

(***************************************************************************)
(* label_mentions                                                          *)
(***************************************************************************)
\* Response.fillna("").astype(str)
FillNa(resp) == IF resp = None THEN << >> ELSE resp[1]

\* ResponseEmpty = Response.str.strip().eq("")
ResponseEmpty(response) == Strip(response) = << >>

\* (mutant of MatchFlag: the letter case is not folded)
MatchNoLower(b, response) == IF Contains(response, b) THEN 1 ELSE 0

\* the lambda of df.apply: 1 if brand.lower() in response.lower() else 0
MatchFlag(b, response) ==
    IF Contains(Lower(response), Lower(b)) THEN 1 ELSE 0

\* (mutant of Override: the substring flag is kept)
NoOverride(empty, mentioned) == mentioned

\* np.where(ResponseEmpty, 0, Mentioned)
Override(empty, mentioned) == IF empty THEN 0 ELSE mentioned

LabelRow(row) ==
    LET response == FillNa(row.Response)
        empty == ResponseEmpty(response)
    IN  [Brand |-> row.Brand,
         Response |-> Some(response),
         ResponseEmpty |-> empty,
         Mentioned |-> Override(empty, MatchFlag(row.Brand[1], response))]

\* What a call label_mentions(d) can end in.  A null Brand has no lower():
\* the lambda raises.  On a table without rows df.apply(axis=1) yields an
\* empty frame, not a column; whether assigning it as the Mentioned column
\* raises depends on the pandas release, so both outcomes are kept.
label_mentions(d) ==
    IF \E i \in 1..Len(d) : d[i].Brand = None
    THEN {[status |-> "raised", table |-> None]}
    ELSE {[status |-> "returned",
           table |-> Some([i \in 1..Len(d) |-> LabelRow(d[i])])]}
         \cup (IF Len(d) = 0
               THEN {[status |-> "raised", table |-> None]}
               ELSE {})

LabelChars == {"a", "A", " "}

LabelBrands == {None} \cup {Some(s) : s \in SeqsUpTo(LabelChars, MaxBrandLen)}

LabelResponses ==
    {None} \cup {Some(s) : s \in SeqsUpTo(LabelChars, MaxRespLen)}

LabelRows == [Brand : LabelBrands, Response : LabelResponses]

IdleResolver ==
    /\ pc = "idle"
    /\ brand = << >>
    /\ titles_to_try = << >>
    /\ ti = 0
    /\ options = << >>
    /\ candidates = << >>
    /\ ci = 0
    /\ hits = << >>
    /\ hi = 0
    /\ ret = None
    /\ log = << >>
    /\ optLog = << >>

IdleFlags ==
    /\ fpc = "idle"
    /\ brands = << >>
    /\ bi = 0
    /\ wiki_flag = << >>
    /\ wiki_title = << >>
    /\ flagged = None
    /\ calls = << >>
    /\ lastEvent = "start"

InitLabel ==
    /\ df \in SeqsUpTo(LabelRows, MaxRows)
    /\ labelStatus = "pending"
    /\ labelled = None
    /\ IdleResolver
    /\ IdleFlags
    /\ stats = None

LabelMentions ==
    /\ labelStatus = "pending"
    /\ \E out \in label_mentions(df) :
        /\ labelStatus' = out.status
        /\ labelled' = out.table
    /\ UNCHANGED <<df, resolverVars, flagsVars, lastEvent, stats>>

NextLabel == LabelMentions

SpecLabel == InitLabel /\ [][NextLabel]_vars

(***************************************************************************)
(* Brand names and Wikipedia titles.                                       *)
(***************************************************************************)
HP == <<"H","P">>

Apple == <<"A","p","p","l","e">>

Dell == <<"D","e","l","l">>

Lenovo == <<"L","e","n","o","v","o">>

Asus == <<"A","s","u","s">>

Jabra == <<"J","a","b","r","a">>

Samsung == <<"S","a","m","s","u","n","g">>

\* a brand the alias table does not list
Acer == <<"A","c","e","r">>

\* the alias table, WIKI_ALIASES
WIKI_ALIASES ==
    (HP :> << HP \o <<" ","I","n","c",".">>,
              <<"H","e","w","l","e","t","t","-","P","a","c","k","a","r","d">> >>)
    @@ (Apple :> << Apple \o <<" ","I","n","c",".">> >>)
    @@ (Dell :> << Dell \o <<" ","(","c","o","m","p","a","n","y",")">>,
                   Dell \o <<" ","I","n","c",".">> >>)
    @@ (Lenovo :> << Lenovo >>)
    @@ (Asus :> << Asus >>)
    @@ (Jabra :> << Jabra,
                    Jabra \o <<" ","(","c","o","m","p","a","n","y",")">> >>)
    @@ (Samsung :> << Samsung \o <<" ","E","l","e","c","t","r","o","n","i","c","s">>,
                      Samsung >>)

AllBrands == DOMAIN WIKI_ALIASES \cup {Acer}

\* WIKI_ALIASES.get(brand, [brand])
AliasGet(b) == IF b \in DOMAIN WIKI_ALIASES THEN WIKI_ALIASES[b] ELSE <<b>>

\* list(dict.fromkeys(xs)): duplicates dropped, the first occurrence kept
RECURSIVE DictFromKeys(_)
DictFromKeys(xs) ==
    IF xs = << >> THEN << >>
    ELSE LET init == DictFromKeys(SubSeq(xs, 1, Len(xs) - 1))
             last == xs[Len(xs)]
         IN  IF \E k \in 1..Len(init) : init[k] = last
             THEN init
             ELSE Append(init, last)

\* (mutant of TitlesToTry: the raw brand name goes first)
BrandFirstTitles(b) == DictFromKeys(<<b>> \o AliasGet(b))

\* titles_to_try of has_wikipedia_page(b)
TitlesToTry(b) == DictFromKeys(AliasGet(b) \o <<b>>)

(***************************************************************************)
(* The external service: what wikipedia.page and wikipedia.search can      *)
(* answer.  Every call draws its answer anew.                              *)
(***************************************************************************)
ExceptionKinds == {"DisambiguationError", "PageError", "OtherException"}

\* isinstance(exception of kind k, cls); every kind derives from Exception
IsInstance(k, cls) == cls = "Exception" \/ k = cls

\* titles a disambiguation page of brand b may list: two that hold the brand
\* and are equally long (one only up to letter case), a shorter one that
\* holds it, and a still shorter one that does not
OptionPool(b) ==
    { Lower(b) \o <<" ","c","o">>,
      b \o <<" ","(","x">>,
      b \o <<"!">>,
      <<"Z","z">> }

\* e.options: the titles listed, each once, in the order of the page
OptionLists(b) ==
    {o \in SeqsUpTo(OptionPool(b), MaxOptions) :
        \A j, k \in 1..Len(o) : o[j] = o[k] => j = k}

\* page.title of a fetched page: the title asked for, or the title the
\* service redirected to
PageTitles(title) == {title, title \o <<" ","(","r",")">>}

\* how a call wikipedia.page(title, auto_suggest=False) can end
PageKinds == {"ok"} \cup ExceptionKinds

\* the kth title a search for b may return
HitTitle(b, k) == b \o [j \in 1..k |-> "x"]

\* wikipedia.search(brand): a list of distinct titles, or a failure
SearchOutcomes(b) ==
    {[kind |-> "ok", hits |-> [j \in 1..n |-> HitTitle(b, j)]] :
        n \in 0..MaxHits}
    \cup {[kind |-> "OtherException", hits |-> << >>]}

(***************************************************************************)
(* has_wikipedia_page                                                      *)
(***************************************************************************)
\* (mutant of OptionKey: the length alone)
OptionKeyLenOnly(b, x) == <<0, Len(x)>>

\* the sort key of the handler: (brand.lower() not in x.lower(), len(x))
OptionKey(b, x) ==
    <<IF Contains(Lower(x), Lower(b)) THEN 0 ELSE 1, Len(x)>>

\* Python's tuple comparison  k1 < k2
KeyLess(k1, k2) == k1[1] < k2[1] \/ (k1[1] = k2[1] /\ k1[2] < k2[2])

\* one step of the stable sort: x goes behind every element not greater
RECURSIVE InsertSorted(_, _, _)
InsertSorted(b, x, xs) ==
    IF xs = << >> THEN <<x>>
    ELSE IF KeyLess(OptionKey(b, x), OptionKey(b, Head(xs)))
         THEN <<x>> \o xs
         ELSE <<Head(xs)>> \o InsertSorted(b, x, Tail(xs))

\* sorted(e.options, key=...)
RECURSIVE SortedOptions(_, _)
SortedOptions(b, opts) ==
    IF opts = << >> THEN << >>
    ELSE InsertSorted(b, opts[Len(opts)],
                      SortedOptions(b, SubSeq(opts, 1, Len(opts) - 1)))

\* xs[:n]
Take(xs, n) == SubSeq(xs, 1, IF Len(xs) < n THEN Len(xs) ELSE n)

\* (mutant of TopCandidates: every candidate is tried)
TopCandidatesUncut(cands) == cands

\* candidates[:3]
TopCandidates(cands) == Take(cands, 3)

\* (mutant of TopHits: the hits are taken from the end)
TopHitsReversed(hs) == Take([j \in 1..Len(hs) |-> hs[Len(hs) + 1 - j]], 5)

\* hits[:5]
TopHits(hs) == Take(hs, 5)

\* the except clauses of the direct fetch, in source order
DirectClauses == <<"DisambiguationError", "PageError", "Exception">>

\* the clause that handles an exception of kind k ("" when none does)
DirectClause(k) ==
    IF \E n \in 1..Len(DirectClauses) : IsInstance(k, DirectClauses[n])
    THEN DirectClauses[CHOOSE n \in 1..Len(DirectClauses) :
            /\ IsInstance(k, DirectClauses[n])
            /\ \A m \in 1..(n - 1) : ~IsInstance(k, DirectClauses[m])]
    ELSE ""

\* (mutant of OptionExcept: only PageError is caught)
OptionExceptPageError == "PageError"

\* the except clause around the fetch of a disambiguation candidate
OptionExcept == "Exception"

\* the except clause around the fetch of a search hit
HitExcept == "Exception"

\* the except clause around the search fallback
SearchExcept == "Exception"

\* (mutant of ReturnPage: the title asked for is returned)
ReturnRequested(asked, page) == <<1, Some(asked)>>

\* return 1, page.title
ReturnPage(asked, page) == <<1, Some(page)>>

\* a log entry: the call made (phase, title asked for), whether it succeeded,
\* the page title it gave, and for a search the list it returned
Entry(phase, arg, ok, page) ==
    [phase |-> phase, arg |-> arg, ok |-> ok, page |-> page, found |-> << >>]

SearchEntry(b, ok, found) ==
    [phase |-> "search", arg |-> Some(b), ok |-> ok, page |-> None,
     found |-> found]

\* has_wikipedia_page(b) entered: titles_to_try is built
Enter(b) ==
    /\ brand' = b
    /\ titles_to_try' = TitlesToTry(b)
    /\ ti' = 1
    /\ pc' = "direct"
    /\ options' = << >>
    /\ candidates' = << >>
    /\ ci' = 0
    /\ hits' = << >>
    /\ hi' = 0
    /\ ret' = None
    /\ log' = << >>
    /\ optLog' = << >>

\* the frame of a call that has returned is dropped
Leave ==
    /\ pc' = "idle"
    /\ brand' = << >>
    /\ titles_to_try' = << >>
    /\ ti' = 0
    /\ options' = << >>
    /\ candidates' = << >>
    /\ ci' = 0
    /\ hits' = << >>
    /\ hi' = 0
    /\ ret' = None
    /\ log' = << >>
    /\ optLog' = << >>

\* the loop over titles_to_try goes on to its next title, or ends; the
\* exception handled and the handler's candidates are out of scope
NextTitle ==
    /\ ti' = ti + 1
    /\ pc' = IF ti + 1 > Len(titles_to_try) THEN "search" ELSE "direct"
    /\ options' = << >>
    /\ candidates' = << >>
    /\ ci' = 0
    /\ optLog' = << >>
    /\ UNCHANGED <<hits, hi, ret>>

Return(value) ==
    /\ ret' = value
    /\ pc' = "returned"

Raise ==
    /\ pc' = "raised"
    /\ UNCHANGED ret

\* wikipedia.page(title, auto_suggest=False) on a direct candidate
DirectFetch ==
    /\ pc = "direct"
    /\ ti <= Len(titles_to_try)
    /\ LET title == titles_to_try[ti] IN
       \E kind \in PageKinds :
          IF kind = "ok"
          THEN \E page \in PageTitles(title) :
               /\ Return(ReturnPage(title, page))
               /\ log' = Append(log, Entry("direct", Some(title), TRUE,
                                           Some(page)))
               /\ UNCHANGED <<ti, options, candidates, ci, hits, hi, optLog>>
          ELSE /\ log' = Append(log, Entry("direct", Some(title), FALSE, None))
               /\ CASE DirectClause(kind) = "DisambiguationError" ->
                        \E opts \in OptionLists(brand) :
                        LET cands == TopCandidates(SortedOptions(brand, opts))
                        IN  IF cands = << >>
                            THEN NextTitle
                            ELSE /\ options' = opts
                                 /\ optLog' = << >>
                                 /\ candidates' = cands
                                 /\ ci' = 1
                                 /\ pc' = "options"
                                 /\ UNCHANGED <<ti, hits, hi, ret>>
                    [] DirectClause(kind) \in {"PageError", "Exception"} ->
                        NextTitle
                    [] OTHER ->
                        /\ Raise
                        /\ UNCHANGED <<ti, options, candidates, ci, hits, hi,
                                       optLog>>
    /\ lastEvent' = "call"
    /\ UNCHANGED <<df, labelVars, brand, titles_to_try, flagsVars, stats>>

\* wikipedia.page(cand, auto_suggest=False) on a disambiguation candidate
OptionFetch ==
    /\ pc = "options"
    /\ ci <= Len(candidates)
    /\ LET cand == candidates[ci] IN
       \E kind \in PageKinds :
          IF kind = "ok"
          THEN \E page \in PageTitles(cand) :
               /\ Return(ReturnPage(cand, page))
               /\ log' = Append(log, Entry("option", None, TRUE, Some(page)))
               /\ optLog' = Append(optLog, cand)
               /\ UNCHANGED <<ti, options, candidates, ci, hits, hi>>
          ELSE /\ log' = Append(log, Entry("option", None, FALSE, None))
               /\ IF IsInstance(kind, OptionExcept)
                  THEN IF ci = Len(candidates)
                       THEN NextTitle
                       ELSE /\ ci' = ci + 1
                            /\ optLog' = Append(optLog, cand)
                            /\ UNCHANGED <<pc, ti, options, candidates, hits,
                                           hi, ret>>
                  ELSE /\ Raise
                       /\ optLog' = Append(optLog, cand)
                       /\ UNCHANGED <<ti, options, candidates, ci, hits, hi>>
    /\ lastEvent' = "call"
    /\ UNCHANGED <<df, labelVars, brand, titles_to_try, flagsVars, stats>>

\* wikipedia.search(brand), once every direct title has failed
Search ==
    /\ pc = "search"
    /\ \E out \in SearchOutcomes(brand) :
          IF out.kind = "ok"
          THEN /\ log' = Append(log, SearchEntry(brand, TRUE, out.hits))
               /\ IF TopHits(out.hits) = << >>
                  THEN /\ Return(<<0, None>>)
                       /\ UNCHANGED <<hits, hi>>
                  ELSE /\ hits' = TopHits(out.hits)
                       /\ hi' = 1
                       /\ pc' = "hits"
                       /\ UNCHANGED ret
          ELSE /\ log' = Append(log, SearchEntry(brand, FALSE, << >>))
               /\ UNCHANGED <<hits, hi>>
               /\ IF IsInstance(out.kind, SearchExcept)
                  THEN Return(<<0, None>>)
                  ELSE Raise
    /\ lastEvent' = "call"
    /\ UNCHANGED <<df, labelVars, brand, titles_to_try, ti, options,
                   candidates, ci, optLog, flagsVars, stats>>

\* wikipedia.page(cand, auto_suggest=False) on a search hit
HitFetch ==
    /\ pc = "hits"
    /\ hi <= Len(hits)
    /\ LET cand == hits[hi] IN
       \E kind \in PageKinds :
          IF kind = "ok"
          THEN \E page \in PageTitles(cand) :
               /\ Return(ReturnPage(cand, page))
               /\ log' = Append(log, Entry("hit", Some(cand), TRUE,
                                           Some(page)))
               /\ UNCHANGED hi
          ELSE /\ log' = Append(log, Entry("hit", Some(cand), FALSE, None))
               /\ IF IsInstance(kind, HitExcept)
                  THEN IF hi = Len(hits)
                       THEN /\ Return(<<0, None>>)
                            /\ UNCHANGED hi
                       ELSE /\ hi' = hi + 1
                            /\ UNCHANGED <<pc, ret>>
                  ELSE /\ Raise
                       /\ UNCHANGED hi
    /\ lastEvent' = "call"
    /\ UNCHANGED <<df, labelVars, brand, titles_to_try, ti, options,
                   candidates, ci, hits, optLog, flagsVars, stats>>

NextResolve == DirectFetch \/ OptionFetch \/ Search \/ HitFetch

\* a call has_wikipedia_page(b) on its own, b any brand
InitResolve ==
    /\ df = << >>
    /\ labelStatus = "pending"
    /\ labelled = None
    /\ brand \in AllBrands
    /\ titles_to_try = TitlesToTry(brand)
    /\ ti = 1
    /\ pc = "direct"
    /\ options = << >>
    /\ candidates = << >>
    /\ ci = 0
    /\ hits = << >>
    /\ hi = 0
    /\ ret = None
    /\ log = << >>
    /\ optLog = << >>
    /\ IdleFlags
    /\ stats = None

SpecResolve == InitResolve /\ [][NextResolve]_vars

(***************************************************************************)
(* compute_haswiki_flags                                                   *)
(***************************************************************************)
\* sorted(xs) on a list of strings
RECURSIVE InsertString(_, _)
InsertString(x, xs) ==
    IF xs = << >> THEN <<x>>
    ELSE IF StrLess(x, Head(xs))
         THEN <<x>> \o xs
         ELSE <<Head(xs)>> \o InsertString(x, Tail(xs))

RECURSIVE SortedStrings(_)
SortedStrings(xs) ==
    IF xs = << >> THEN << >>
    ELSE InsertString(xs[Len(xs)],
                      SortedStrings(SubSeq(xs, 1, Len(xs) - 1)))

\* df["Brand"].dropna()
RECURSIVE DropNa(_)
DropNa(d) ==
    IF d = << >> THEN << >>
    ELSE IF Head(d).Brand = None
         THEN DropNa(Tail(d))
         ELSE <<Head(d).Brand[1]>> \o DropNa(Tail(d))

\* (mutant of UniqueBrands: one entry for every row)
BrandsPerRow(d) == SortedStrings(DropNa(d))

\* sorted(df["Brand"].dropna().unique()); unique() keeps first occurrences
UniqueBrands(d) == SortedStrings(DictFromKeys(DropNa(d)))

\* df["Brand"].map(wiki_flag).fillna(0).astype(int), for one row
HasWikiOf(row, flag) ==
    IF row.Brand # None /\ row.Brand[1] \in DOMAIN flag
    THEN flag[row.Brand[1]]
    ELSE 0

\* df["Brand"].map(wiki_title), for one row
WikiTitleOf(row, title) ==
    IF row.Brand # None /\ row.Brand[1] \in DOMAIN title
    THEN title[row.Brand[1]]
    ELSE None

\* d[key] = value on a dict
DictSet(d, key, value) ==
    [k \in DOMAIN d \cup {key} |-> IF k = key THEN value ELSE d[k]]

\* the brands of the tables given to compute_haswiki_flags: one the alias
\* table lists, one it does not, and a missing one
FlagBrands == {None, Some(Lenovo), Some(Acer)}

\* compute_haswiki_flags(df) entered: brands is built
InitFlags ==
    /\ df \in SeqsUpTo([Brand : FlagBrands], MaxFlagRows)
    /\ labelStatus = "pending"
    /\ labelled = None
    /\ IdleResolver
    /\ fpc = "loop"
    /\ brands = UniqueBrands(df)
    /\ bi = 1
    /\ wiki_flag = << >>
    /\ wiki_title = << >>
    /\ flagged = None
    /\ calls = << >>
    /\ lastEvent = "start"
    /\ stats = None

\* has, title = has_wikipedia_page(b): the call is made
FlagsCall ==
    /\ fpc = "loop"
    /\ pc = "idle"
    /\ bi <= Len(brands)
    /\ Enter(brands[bi])
    /\ calls' = Append(calls, [brand |-> brands[bi], ret |-> None])
    /\ UNCHANGED <<df, labelVars, fpc, brands, bi, wiki_flag, wiki_title,
                   flagged, lastEvent, stats>>

\* the call has returned and its frame is gone: both dicts are set, the line
\* is printed, and time.sleep(WIKI_SLEEP_SECONDS) ends the iteration
FlagsStore ==
    /\ fpc = "loop"
    /\ pc = "returned"
    /\ wiki_flag' = DictSet(wiki_flag, brands[bi], ret[1])
    /\ wiki_title' = DictSet(wiki_title, brands[bi], ret[2])
    /\ calls' = [calls EXCEPT ![Len(calls)].ret = ret]
    /\ lastEvent' = "sleep"
    /\ bi' = bi + 1
    /\ Leave
    /\ UNCHANGED <<df, labelVars, fpc, brands, flagged, stats>>

\* after the loop: the HasWiki and WikiTitle columns are set
FlagsFinish ==
    /\ fpc = "loop"
    /\ pc = "idle"
    /\ bi > Len(brands)
    /\ flagged' = Some([i \in 1..Len(df) |->
                        [Brand |-> df[i].Brand,
                         HasWiki |-> HasWikiOf(df[i], wiki_flag),
                         WikiTitle |-> WikiTitleOf(df[i], wiki_title)]])
    /\ fpc' = "done"
    /\ UNCHANGED <<df, labelVars, resolverVars, brands, bi, wiki_flag,
                   wiki_title, calls, lastEvent, stats>>

NextFlags ==
    \/ FlagsCall
    \/ DirectFetch
    \/ OptionFetch
    \/ Search
    \/ HitFetch
    \/ FlagsStore
    \/ FlagsFinish

SpecFlags == InitFlags /\ [][NextFlags]_vars

(***************************************************************************)
(* chi_square_on_haswiki                                                   *)
(*                                                                         *)
(* chi2 and phi*phi are kept as fractions <<numerator, denominator>>.  Of  *)
(* the p-value only what the function uses is kept: "one" (p = 1.0),       *)
(* "high" (0.05 <= p < 1) or "low" (p < 0.05).                             *)
(***************************************************************************)
\* pd.crosstab(df["HasWiki"], df["Mentioned"]): the observed row labels,
\* the observed column labels and the count of every cell
Crosstab(d) ==
    [rows |-> {d[i].HasWiki : i \in 1..Len(d)},
     cols |-> {d[i].Mentioned : i \in 1..Len(d)},
     count |-> [h \in {0, 1}, m \in {0, 1} |->
                Cardinality({i \in 1..Len(d) :
                    d[i].HasWiki = h /\ d[i].Mentioned = m})]]

\* tab.size
TabSize(tab) == Cardinality(tab.rows) * Cardinality(tab.cols)

\* tab.values.sum()
TabSum(tab) ==
    LET cell(h, m) ==
            IF h \in tab.rows /\ m \in tab.cols THEN tab.count[h, m] ELSE 0
    IN  cell(0, 0) + cell(0, 1) + cell(1, 0) + cell(1, 1)

\* (mutant of Degenerate: no guard)
NeverDegenerate(tab) == FALSE

\* the guard against degenerate tables: tab.size == 0 or tab.values.sum() == 0
Degenerate(tab) == TabSize(tab) = 0 \/ TabSum(tab) = 0

Abs(x) == IF x < 0 THEN -x ELSE x

\* the 5% critical value of chi-square with one degree of freedom, 3.841
Critical == <<3841, 1000>>

\* scipy's chi2_contingency(tab), Yates' correction being its default: an
\* empty table raises ValueError; a table of one row or one column has
\* dof = 0, chi2 = 0, p = 1; on a 2x2 table [[a, b], [c, d]] of total n
\* every |observed - expected| is |ad - bc| / n, the correction takes 1/2
\* off it (not below 0), and chi2 = n * max(0, 2|ad - bc| - n)^2 /
\* (4 * r1 * r2 * c1 * c2)
chi2_contingency(tab) ==
    IF TabSize(tab) = 0
    THEN [status |-> "raised", chi2 |-> <<0, 1>>, p |-> "one", dof |-> 0]
    ELSE LET dof == (Cardinality(tab.rows) - 1) * (Cardinality(tab.cols) - 1)
         IN  IF dof = 0
             THEN [status |-> "returned", chi2 |-> <<0, 1>>, p |-> "one",
                   dof |-> 0]
             ELSE LET a == tab.count[0, 0]
                      b == tab.count[0, 1]
                      c == tab.count[1, 0]
                      d == tab.count[1, 1]
                      n == a + b + c + d
                      diff == 2 * Abs(a * d - b * c) - n
                      m == IF diff < 0 THEN 0 ELSE diff
                      num == n * m * m
                      den == 4 * (a + b) * (c + d) * (a + c) * (b + d)
                 IN  [status |-> "returned",
                      chi2 |-> <<num, den>>,
                      p |-> IF num = 0 THEN "one"
                            ELSE IF num * Critical[2] > Critical[1] * den
                                 THEN "low"
                                 ELSE "high",
                      dof |-> dof]

\* the interpretation printed: p < 0.05 or not
Interpretation(p) ==
    IF p = "low" THEN "significant association"
    ELSE "no significant association"

\* chi_square_on_haswiki(d): what it reports, whether chi2_contingency was
\* called, and "raised" when an exception leaves it
chi_square_on_haswiki(d) ==
    LET tab == Crosstab(d) IN
    IF Degenerate(tab)
    THEN [status |-> "returned", called |-> FALSE,
          chi2 |-> <<0, 1>>, p |-> "one", dof |-> 0, phiSquared |-> <<0, 1>>,
          printed |-> Interpretation("one")]
    ELSE LET r == chi2_contingency(tab)
             n == Len(d)
         IN  IF r.status = "raised"
             THEN [status |-> "raised", called |-> TRUE,
                   chi2 |-> <<0, 1>>, p |-> "one", dof |-> 0,
                   phiSquared |-> <<0, 1>>, printed |-> ""]
             ELSE [status |-> "returned", called |-> TRUE,
                   chi2 |-> r.chi2, p |-> r.p, dof |-> r.dof,
                   phiSquared |-> <<r.chi2[1], r.chi2[2] * n>>,
                   printed |-> Interpretation(r.p)]

\* the tables given to chi_square_on_haswiki: both flags set on every row
InitChi ==
    /\ df \in SeqsUpTo([HasWiki : {0, 1}, Mentioned : {0, 1}], MaxChiRows)
    /\ labelStatus = "pending"
    /\ labelled = None
    /\ IdleResolver
    /\ IdleFlags
    /\ stats = None

ChiSquare ==
    /\ stats = None
    /\ stats' = Some(chi_square_on_haswiki(df))
    /\ UNCHANGED <<df, labelVars, resolverVars, flagsVars, lastEvent>>

NextChi == ChiSquare

SpecChi == InitChi /\ [][NextChi]_vars

(***************************************************************************)
(* Claims about label_mentions (checked under SpecLabel).                  *)
(***************************************************************************)
\* a response that is missing, empty or made of whitespace only
Blank(resp) == resp = None \/ \A k \in 1..Len(resp[1]) : resp[1][k] = " "

\* the same letter, in either case
SameLetter(c, d) ==
    \/ c = d
    \/ \E n \in 1..Len(UpperCase) :
        {c, d} = {UpperCase[n], LowerCase[n]}

\* b occurs in s, letter case ignored
OccursIgnoringCase(s, b) ==
    \E k \in 0..(Len(s) - Len(b)) :
        \A j \in 1..Len(b) : SameLetter(s[k + j], b[j])

\* C1: once label_mentions has returned, every record whose Response was
\* missing, empty or whitespace-only has Mentioned = 0, whatever its Brand.
C1_BlankResponseNeverMentioned ==
    labelStatus = "returned" =>
        \A i \in 1..Len(df) :
            Blank(df[i].Response) => labelled[1][i].Mentioned = 0

\* C1 witness: a whitespace-only response whose brand is a substring of it
\* (a blank brand) was labelled 0.
C1_Witness ==
    /\ labelStatus = "returned"
    /\ \E i \in 1..Len(df) :
        /\ df[i].Response = Some(<<" ", " ">>)
        /\ df[i].Brand = Some(<<" ">>)
        /\ labelled[1][i].Mentioned = 0

\* C2 as stated: every response that is not the empty string and contains
\* the brand in some letter case has Mentioned = 1.
C2_NonEmptyContainingMentioned ==
    labelStatus = "returned" =>
        \A i \in 1..Len(df) :
            ( /\ df[i].Response # None
              /\ df[i].Response[1] # << >>
              /\ OccursIgnoringCase(df[i].Response[1], df[i].Brand[1]) )
            => labelled[1][i].Mentioned = 1

\* C2 amended: every response that is not empty after trimming whitespace
\* and contains the brand in some letter case has Mentioned = 1.
C2_NonBlankContainingMentioned ==
    labelStatus = "returned" =>
        \A i \in 1..Len(df) :
            ( /\ ~Blank(df[i].Response)
              /\ OccursIgnoringCase(df[i].Response[1], df[i].Brand[1]) )
            => labelled[1][i].Mentioned = 1

\* C2 witness: a response holding the brand in another letter case was
\* labelled 1.
C2_Witness ==
    /\ labelStatus = "returned"
    /\ \E i \in 1..Len(df) :
        /\ df[i].Brand = Some(<<"a">>)
        /\ df[i].Response = Some(<<" ", "A">>)
        /\ labelled[1][i].Mentioned = 1

(***************************************************************************)
(* Claims about has_wikipedia_page (checked under SpecResolve).            *)
(***************************************************************************)
\* positions of the log that are page fetches
Fetches == {k \in 1..Len(log) : log[k].phase # "search"}

\* the titles asked for in the given phase, in the order of the calls
RECURSIVE ArgsOf(_, _)
ArgsOf(l, phase) ==
    IF l = << >> THEN << >>
    ELSE IF Head(l).phase = phase
         THEN <<Head(l).arg[1]>> \o ArgsOf(Tail(l), phase)
         ELSE ArgsOf(Tail(l), phase)

IsPrefix(xs, ys) == Len(xs) <= Len(ys) /\ xs = SubSeq(ys, 1, Len(xs))

\* the configured alias list of b followed by b, unless the list holds b
ConfiguredOrder(b) ==
    IF b \notin DOMAIN WIKI_ALIASES THEN <<b>>
    ELSE IF \E k \in 1..Len(WIKI_ALIASES[b]) : WIKI_ALIASES[b][k] = b
         THEN WIKI_ALIASES[b]
         ELSE Append(WIKI_ALIASES[b], b)

\* C3: the call returns (1, title) or (0, None); (1, title) exactly when a
\* page fetch succeeded, title being the page title of that fetch, which is
\* the first success and the last call made; (0, None) exactly when every
\* fetch made failed, every direct title having been tried.
C3_ReturnMatchesFirstSuccess ==
    /\ \A k \in Fetches : log[k].ok => (k = Len(log) /\ pc = "returned")
    /\ pc = "returned" =>
        /\ ret # None
        /\ ret[1] \in {0, 1}
        /\ ret[1] = 1 <=> \E k \in Fetches : log[k].ok
        /\ ret[1] = 1 => ret[2] = log[Len(log)].page /\ ret[2] # None
        /\ ret[1] = 0 =>
            /\ ret[2] = None
            /\ \A k \in Fetches : ~log[k].ok
            /\ ArgsOf(log, "direct") = ConfiguredOrder(brand)

\* C3 witness: a search hit redirected to another title, which is returned.
C3_Witness ==
    /\ pc = "returned"
    /\ Len(log) > 3
    /\ log[Len(log)].phase = "hit"
    /\ log[Len(log)].page # log[Len(log)].arg
    /\ ret = <<1, log[Len(log)].page>>

\* C4 as stated: whenever the raw brand name is fetched as a direct title,
\* every other alias of the brand has been fetched as a direct title before.
C4_AliasesBeforeBrand ==
    \A k \in 1..Len(log) :
        ( /\ brand \in DOMAIN WIKI_ALIASES
          /\ log[k].phase = "direct"
          /\ log[k].arg = Some(brand) )
        => \A n \in 1..Len(WIKI_ALIASES[brand]) :
            WIKI_ALIASES[brand][n] # brand =>
                \E j \in 1..(k - 1) :
                    /\ log[j].phase = "direct"
                    /\ log[j].arg = Some(WIKI_ALIASES[brand][n])

\* C4 amended: the direct titles are fetched in the order of the configured
\* alias list, the raw brand name coming last only when the list does not
\* hold it; a list that holds the raw brand name is followed as it stands.
C4_DirectTitlesInConfiguredOrder ==
    /\ IsPrefix(ArgsOf(log, "direct"), ConfiguredOrder(brand))
    /\ pc \in {"search", "hits"} =>
        ArgsOf(log, "direct") = ConfiguredOrder(brand)

\* C4 witness: for HP both aliases were fetched, then the raw brand name.
C4_Witness ==
    /\ brand = HP
    /\ Len(ArgsOf(log, "direct")) = 3
    /\ ArgsOf(log, "direct")[3] = HP
    /\ ArgsOf(log, "direct")[1] = WIKI_ALIASES[HP][1]

\* C5: no exception leaves the call: it never ends raised, and until it has
\* returned a (flag, title) pair it can take its next step.
C5_NoExceptionPropagates ==
    /\ pc # "raised"
    /\ pc # "returned" => ret = None /\ ENABLED NextResolve
    /\ pc = "returned" => ret # None /\ Len(ret) = 2

\* C5 witness: a call that met a failure in every phase --- a direct title,
\* a disambiguation candidate, a search hit --- and returned (0, None).
C5_Witness ==
    /\ pc = "returned"
    /\ ret = <<0, None>>
    /\ \E k \in 1..Len(log) : log[k].phase = "option" /\ ~log[k].ok
    /\ \E k \in 1..Len(log) : log[k].phase = "hit" /\ ~log[k].ok
    /\ \E k \in 1..Len(log) : log[k].phase = "search" /\ log[k].ok

\* C6: a search is made at most once, on the raw brand name, after every
\* direct title has been fetched and everything before it failed; after it
\* only search hits are fetched, at most 5, in the order the search
\* returned them, none after a success.
C6_SearchLastThenTopFiveHits ==
    \A k \in 1..Len(log) :
        log[k].phase = "search" =>
            /\ log[k].arg = Some(brand)
            /\ ArgsOf(SubSeq(log, 1, k - 1), "direct") = ConfiguredOrder(brand)
            /\ \A j \in 1..(k - 1) :
                log[j].phase \in {"direct", "option"} /\ ~log[j].ok
            /\ Len(log) - k <= 5
            /\ Len(log) - k <= Len(log[k].found)
            /\ \A j \in (k + 1)..Len(log) :
                /\ log[j].phase = "hit"
                /\ log[j].arg = Some(log[k].found[j - k])
                /\ log[j].ok => j = Len(log)

\* C6 witness: the search returned 6 hits and the first 5 were fetched.
C6_Witness ==
    \E k \in 1..Len(log) :
        /\ log[k].phase = "search"
        /\ Len(log[k].found) = 6
        /\ Len(log) = k + 5
        /\ log[Len(log)].arg = Some(log[k].found[5])

\* the rank order of the claim: options that hold the brand (letter case
\* ignored) first, shorter before longer, ties in their original order
RankBefore(b, opts, i, j) ==
    LET miss(x) == IF OccursIgnoringCase(x, b) THEN 0 ELSE 1
    IN  \/ miss(opts[i]) < miss(opts[j])
        \/ /\ miss(opts[i]) = miss(opts[j])
           /\ \/ Len(opts[i]) < Len(opts[j])
              \/ Len(opts[i]) = Len(opts[j]) /\ i < j

\* the option of rank r
Ranked(b, opts, r) ==
    opts[CHOOSE i \in 1..Len(opts) :
            Cardinality({j \in 1..Len(opts) : RankBefore(b, opts, j, i)})
                = r - 1]

Min(a, b) == IF a < b THEN a ELSE b

\* the handler of the options in hand has fetched its last candidate
LastCandidateFails ==
    /\ pc = "options"
    /\ Len(optLog) + 1 = Min(3, Len(options))
    /\ Len(log') = Len(log) + 1
    /\ ~log'[Len(log')].ok

\* C10, state part: the options fetched by the handler are the options of
\* rank 1, 2, 3 in that order, at most 3; a success is returned as (1, title).
C10_RankedState ==
    /\ Len(optLog) <= Min(3, Len(options))
    /\ \A r \in 1..Len(optLog) : optLog[r] = Ranked(brand, options, r)
    /\ (pc = "options") => Len(optLog) < Min(3, Len(options))
    /\ (Len(log) > 0 /\ log[Len(log)].phase = "option" /\ log[Len(log)].ok)
        => pc = "returned" /\ ret = <<1, log[Len(log)].page>>

\* C10, step part: when the last candidate tried fails the resolver goes on
\* to the next direct title (or to the search when there is none) and has
\* returned nothing.
C10_RankedStep ==
    LastCandidateFails =>
        /\ ret' = None
        /\ IF ti < Len(titles_to_try)
           THEN pc' = "direct" /\ ti' = ti + 1
           ELSE pc' = "search"

\* C10: after an ambiguous direct title the options are tried in rank order,
\* at most 3, the first success is returned, and when all fail the resolver
\* continues with the next title.
C10_DisambiguationRanking == [](C10_RankedState) /\ [][C10_RankedStep]_vars

\* C10 witness: of 4 options, the first listed not holding the brand, the 3
\* holding it were fetched in rank order and the third succeeded.
C10_Witness ==
    /\ pc = "returned"
    /\ Len(options) = 4
    /\ options[1] = <<"Z", "z">>
    /\ options[2] = brand \o <<" ", "(", "x">>
    /\ options[3] = Lower(brand) \o <<" ", "c", "o">>
    /\ optLog = <<options[4], options[2], options[3]>>
    /\ ret[1] = 1

(***************************************************************************)
(* Claims about compute_haswiki_flags (checked under SpecFlags).           *)
(***************************************************************************)
\* the distinct non-null Brand values of the table
NonNullBrands == {df[i].Brand[1] : i \in {j \in 1..Len(df) : df[j].Brand # None}}

CallsFor(b) == {k \in 1..Len(calls) : calls[k].brand = b}

\* C7: the resolver is invoked for non-null brands of the table only, never
\* twice for one brand, and once the table is returned exactly once for each;
\* every record with a brand carries the flag and title that call returned,
\* so records of one brand agree on HasWiki, which is 0 or 1, and WikiTitle.
C7_OnceForEachBrand ==
    /\ \A k \in 1..Len(calls) : calls[k].brand \in NonNullBrands
    /\ \A b \in NonNullBrands : Cardinality(CallsFor(b)) <= 1
    /\ fpc = "done" =>
        /\ \A b \in NonNullBrands : Cardinality(CallsFor(b)) = 1
        /\ \A i \in 1..Len(df) :
            df[i].Brand # None =>
                \E k \in CallsFor(df[i].Brand[1]) :
                    /\ calls[k].ret # None
                    /\ flagged[1][i].HasWiki = calls[k].ret[1]
                    /\ flagged[1][i].WikiTitle = calls[k].ret[2]
        /\ \A i, j \in 1..Len(df) :
            df[i].Brand = df[j].Brand =>
                /\ flagged[1][i].HasWiki \in {0, 1}
                /\ flagged[1][i].HasWiki = flagged[1][j].HasWiki
                /\ flagged[1][i].WikiTitle = flagged[1][j].WikiTitle

\* C7 witness: two records of one brand, one resolver call, both flagged 1
\* with the title it returned.
C7_Witness ==
    /\ fpc = "done"
    /\ Len(df) = 2
    /\ df[1].Brand = Some(Lenovo)
    /\ df[2].Brand = Some(Lenovo)
    /\ Len(calls) = 1
    /\ flagged[1][1].HasWiki = 1
    /\ flagged[1][2].WikiTitle = calls[1].ret[2]

\* a step that makes an external lookup call
ExternalCall == Len(log') = Len(log) + 1

\* C8: every external lookup call follows a rate-limiting delay made after
\* the previous external lookup call, so no external lookup call comes
\* straight after another one.
C8_NoCallsBackToBack == [][ExternalCall => lastEvent # "call"]_vars

(***************************************************************************)
(* Claims about chi_square_on_haswiki (checked under SpecChi).             *)
(***************************************************************************)
\* C9: on a table without rows (its contingency table is empty) the function
\* reports chi2 = 0, p = 1, dof = 0, phi = 0, does not call the chi-square
\* computation, does not fail, and prints that no significant association
\* was found.
C9_DegenerateTableReported ==
    (stats # None /\ Len(df) = 0) =>
        /\ stats[1].status = "returned"
        /\ ~stats[1].called
        /\ stats[1].chi2[1] = 0
        /\ stats[1].p = "one"
        /\ stats[1].dof = 0
        /\ stats[1].phiSquared[1] = 0
        /\ stats[1].printed = "no significant association"

\* C9 witness: the function has run on the table without rows.
C9_Witness ==
    /\ Len(df) = 0
    /\ stats # None
    /\ stats[1].status = "returned"
    /\ ~stats[1].called

====
